---------------------------- MODULE Spec2Model ----------------------------
(***************************************************************************)
(* A model of dvf-blockchain-go: the ledger of blockchain.go (chain,       *)
(* pending pool, peer set, hashing, proof of work, chain validation and    *)
(* the longest-chain consensus) and the HTTP handlers of server.go.        *)
(*                                                                         *)
(* Strings that the code builds are modelled as sequences: the empty       *)
(* string is <<>>, the genesis marker "1" is <<"1">>, and a hex digest is  *)
(* <<"sha256", m>> with m the marshalled value, so that the hash is an     *)
(* injective function of every field of the block.                         *)
(***************************************************************************)
EXTENDS Integers, Sequences, FiniteSets, Bags, TLC

VARIABLES
    bc,        \* bc[n]: the Blockchain of node n (Chain, CurrentTransactions, Nodes)
    up,        \* up[n]: InitBlockchain has run on node n and its server listens
    clock,     \* the wall clock read by time.Now()
    promised,  \* promised[n][i]: the index NewTransaction returned for pool entry i
    submitted, \* the number of transactions the nodes have accepted from clients
    last,      \* the request handled last, with what it read and what it answered
    accepted,  \* accepted[n]: the bag of the transactions NewTransaction took on node n
    inflight   \* inflight[r]: the request that goroutine r is serving, and where it is

vars == <<bc, up, clock, promised, submitted, last, accepted, inflight>>

-----------------------------------------------------------------------------
(* Bounds of the model *)

\* total number of blocks sealed in the network, genesis blocks included
MaxClock == 4
\* number of transactions the nodes accept from clients
MaxSubmit == 2
\* the same two bounds where a foreign peer takes part
MaxClockOpen == 3
MaxSubmitOpen == 1
\* the largest proof the search of ProofOfWork is followed to
ProofBound == 25

\* the same two bounds where one node serves requests at the same time, and the
\* number of requests it serves at the same time
MaxClockConc == 3
MaxSubmitConc == 2
MaxInflight == 2

\* the nodes that run this program; a node's address and its identifier
NodeIds == {"A", "B"}
\* a peer address behind which some other program answers
Foreign == "X"

\* what a client may send: a field left out reads as "" or 0, and the k-th
\* transaction accepted in the network is told from the others by its amount
Senders == {"", "a"}
Recipients == {"", "b"}
Amounts(k) == {0, k + 1}

-----------------------------------------------------------------------------
(* blockchain.go *)

EmptyString == <<>>
GenesisPreviousHash == <<"1">>
GenesisProof == 100

Transaction(sender, recipient, amount) ==
    [Sender |-> sender, Recipient |-> recipient, Amount |-> amount]

Block(index, timestamp, transactions, proof, previousHash) ==
    [Index |-> index, Timestamp |-> timestamp, Transactions |-> transactions,
     Proof |-> proof, PreviousHash |-> previousHash]

\* &Blockchain{Nodes: make(map[string]bool)}
Blockchain == [Chain |-> <<>>, CurrentTransactions |-> <<>>, Nodes |-> {}]

\* time.Now(): the wall clock, with a monotonic clock reading attached
Now(t) == [wall |-> t, mono |-> TRUE]

\* json.Marshal(b): every field, in the order of the struct. A time.Time is written
\* in RFC 3339 with nanoseconds, which leaves its monotonic clock reading out. A nil
\* and an empty transaction slice (null and []) both read back as they were written
\* and are not told apart here.
Marshal(b) == <<b.Index, b.Timestamp.wall, b.Transactions, b.Proof, b.PreviousHash>>

\* json.Decoder.Decode of a marshalled block
Unmarshal(m) == Block(m[1], [wall |-> m[2], mono |-> FALSE], m[3], m[4], m[5])

Hash(b) == <<"sha256", Marshal(b)>>

LastBlock(b) == b.Chain[Len(b.Chain)]

\* NewBlock without the reset of the pool
NewBlockKeepsPool(b, proof, previousHash, now) ==
    LET prevHash == IF Len(previousHash) > 0 THEN previousHash ELSE Hash(LastBlock(b))
        blk == Block(Len(b.Chain) + 1, now, b.CurrentTransactions, proof, prevHash)
    IN  [bc |-> [b EXCEPT !.Chain = Append(b.Chain, blk)], block |-> blk]

\* NewBlock numbering the blocks from 0
NewBlockIndexFromZero(b, proof, previousHash, now) ==
    LET prevHash == IF Len(previousHash) > 0 THEN previousHash ELSE Hash(LastBlock(b))
        blk == Block(Len(b.Chain), now, b.CurrentTransactions, proof, prevHash)
    IN  [bc |-> [b EXCEPT !.CurrentTransactions = <<>>, !.Chain = Append(b.Chain, blk)],
         block |-> blk]

\* NewBlock putting the new block in the place of the last one
NewBlockOverwritesLast(b, proof, previousHash, now) ==
    LET prevHash == IF Len(previousHash) > 0 THEN previousHash ELSE Hash(LastBlock(b))
        blk == Block(Len(b.Chain) + 1, now, b.CurrentTransactions, proof, prevHash)
    IN  [bc |-> [b EXCEPT !.CurrentTransactions = <<>>,
                          !.Chain = IF Len(b.Chain) = 0
                                    THEN <<blk>>
                                    ELSE [b.Chain EXCEPT ![Len(b.Chain)] = blk]],
         block |-> blk]

\* the new block and the ledger after it: the pool is sealed into the block and reset
NewBlock(b, proof, previousHash, now) ==
    LET prevHash == IF Len(previousHash) > 0 THEN previousHash ELSE Hash(LastBlock(b))
        blk == Block(Len(b.Chain) + 1, now, b.CurrentTransactions, proof, prevHash)
    IN  [bc |-> [b EXCEPT !.CurrentTransactions = <<>>, !.Chain = Append(b.Chain, blk)],
         block |-> blk]

\* InitBlockchain sealing the genesis block with proof 0
InitBlockchainProofZero(now) ==
    NewBlock(Blockchain, 0, GenesisPreviousHash, now).bc

InitBlockchain(now) == NewBlock(Blockchain, GenesisProof, GenesisPreviousHash, now).bc

\* NewTransaction putting the entry at the front of the pool
NewTransactionAtFront(b, sender, recipient, amount) ==
    [bc |-> [b EXCEPT !.CurrentTransactions =
                          <<Transaction(sender, recipient, amount)>> \o @],
     index |-> LastBlock(b).Index + 1]

\* the ledger after the append, and the index returned
NewTransaction(b, sender, recipient, amount) ==
    [bc |-> [b EXCEPT !.CurrentTransactions =
                          Append(@, Transaction(sender, recipient, amount))],
     index |-> LastBlock(b).Index + 1]

\* fmt.Sprintf("%d", n) as a sequence of characters: the digits 0..9, and 10 for '-'
RECURSIVE Digits(_)
Digits(n) == IF n < 10 THEN <<n>> ELSE Append(Digits(n \div 10), n % 10)
Sprintd(n) == IF n < 0 THEN <<10>> \o Digits(0 - n) ELSE Digits(n)

\* sha256.Sum256 and hex.EncodeToString, scaled down to a digest of one hex digit
RECURSIVE Fold256(_, _)
Fold256(h, s) == IF s = <<>> THEN h ELSE Fold256((h * 13 + Head(s) + 4) % 16, Tail(s))
Sum256(s) == Fold256(0, s)

\* strings.HasPrefix(digest, zeros): the leading hex digits of the digest are 0
HasPrefixZeros(digest) == digest = 0

ValidProof(lastProof, proof) ==
    HasPrefixZeros(Sum256(Sprintd(lastProof) \o Sprintd(proof)))

\* the search ends within ProofBound
ProofOfWorkEnds(lastProof) == \E p \in 0..ProofBound : ValidProof(lastProof, p)

RECURSIVE ProofSearch(_, _)
ProofSearch(lastProof, proof) ==
    IF ValidProof(lastProof, proof) \/ proof >= ProofBound
    THEN proof
    ELSE ProofSearch(lastProof, proof + 1)
\* ProofOfWork stepping once more after the loop
ProofOfWorkOneMore(lastProof) == ProofSearch(lastProof, 0) + 1

\* ProofOfWork starting its search at 1
ProofOfWorkFromOne(lastProof) == ProofSearch(lastProof, 1)

ProofOfWork(lastProof) == ProofSearch(lastProof, 0)

RegisterNode(b, address) == [b EXCEPT !.Nodes = @ \cup {address}]

\* chain[0] of a chain with no block is out of range: the call panics
ValidChainPanics(chain) == Len(chain) = 0

\* the loop of ValidChain without the comparison of the hashes
RECURSIVE ValidChainFromNoHash(_, _)
ValidChainFromNoHash(chain, currentIndex) ==
    IF currentIndex >= Len(chain)
    THEN TRUE
    ELSE IF ~ValidProof(chain[currentIndex].Proof, chain[currentIndex + 1].Proof)
         THEN FALSE
         ELSE ValidChainFromNoHash(chain, currentIndex + 1)

\* the loop of ValidChain without the check of the proofs
RECURSIVE ValidChainFromNoProof(_, _)
ValidChainFromNoProof(chain, currentIndex) ==
    IF currentIndex >= Len(chain)
    THEN TRUE
    ELSE IF chain[currentIndex + 1].PreviousHash # Hash(chain[currentIndex])
         THEN FALSE
         ELSE ValidChainFromNoProof(chain, currentIndex + 1)

\* the loop of ValidChain from currentIndex (0-based) on
RECURSIVE ValidChainFrom(_, _)
ValidChainFrom(chain, currentIndex) ==
    IF currentIndex >= Len(chain)
    THEN TRUE
    ELSE LET lastBlock == chain[currentIndex]
             block == chain[currentIndex + 1]
         IN  IF block.PreviousHash # Hash(lastBlock)
             THEN FALSE
             ELSE IF ~ValidProof(lastBlock.Proof, block.Proof)
                  THEN FALSE
                  ELSE ValidChainFrom(chain, currentIndex + 1)

\* for a chain of at least one block
ValidChain(chain) == ValidChainFrom(chain, 1)

-----------------------------------------------------------------------------
(* server.go: what one GET of <peer>/chain can bring back *)

FullChainResponse(chain, length) == [Chain |-> chain, Length |-> length]

\* the body HandleFullChain writes
HandleFullChainBody(b) == FullChainResponse(b.Chain, Len(b.Chain))

\* the body as ResolveConflicts decodes it
DecodeBody(body) ==
    FullChainResponse([i \in 1..Len(body.Chain) |-> Unmarshal(Marshal(body.Chain[i]))],
                      body.Length)

Response(kind, body) == [kind |-> kind, body |-> body]
NoBody == FullChainResponse(<<>>, 0)

\* http.Get fails
Unreachable == Response("unreachable", NoBody)
\* the status is not 200, or the body is not the JSON expected
Strange == {Response("non200", NoBody), Response("undecodable", NoBody)}

\* the longest chain a foreign peer is followed to
MaxChain == 2

\* the chains the nodes serve, as a peer reads them
KnownChains == {DecodeBody(HandleFullChainBody(bc[m])).Chain : m \in {x \in NodeIds : up[x]}}

\* a proof that does not follow lastProof
WrongProof(lastProof) == IF ValidProof(lastProof, 0) THEN 1 ELSE 0

\* a known chain with one more block, whose proof or previous hash is wrong
BrokenChains ==
    UNION {{Append(c, Block(Len(c) + 1, [wall |-> 0, mono |-> FALSE], <<>>,
                            WrongProof(c[Len(c)].Proof), Hash(c[Len(c)]))),
            Append(c, Block(Len(c) + 1, [wall |-> 0, mono |-> FALSE], <<>>,
                            ProofOfWork(c[Len(c)].Proof), <<"bad">>))} :
           c \in {k \in KnownChains : Len(k) < MaxChain}}

\* what a foreign peer may answer with: a known chain under a length it likes, a
\* broken chain, or no block at all
ForgedBodies ==
    {FullChainResponse(c, MaxChain + 1) : c \in KnownChains}
    \cup {FullChainResponse(c, Len(c)) : c \in BrokenChains \cup {<<>>}}

\* a node that runs this program answers /chain with status 200 and its chain, when
\* the request reaches it; any other address answers as it likes
Get(peer) ==
    IF peer \in NodeIds
    THEN IF up[peer]
         THEN {Response("ok", DecodeBody(HandleFullChainBody(bc[peer]))), Unreachable}
         ELSE {Unreachable}
    ELSE {Response("ok", b) : b \in ForgedBodies} \cup Strange \cup {Unreachable}

\* one answer for each peer of S
RECURSIVE Gets(_)
Gets(S) ==
    IF S = {}
    THEN {[p \in {} |-> NoBody]}
    ELSE LET p == CHOOSE x \in S : TRUE
         IN  {[q \in S |-> IF q = p THEN r ELSE f[q]] : r \in Get(p), f \in Gets(S \ {p})}

-----------------------------------------------------------------------------
(* blockchain.go: ResolveConflicts *)

\* the loop going on to the next neighbour when a fetch fails
RECURSIVE ResolveLoopSkipsFailures(_, _, _, _, _)
ResolveLoopSkipsFailures(order, resp, i, maxLength, newChain) ==
    IF i > Len(order)
    THEN [err |-> "none", newChain |-> newChain, contacted |-> Len(order)]
    ELSE LET r == resp[order[i]]
         IN  IF r.kind = "ok" /\ ~ValidChainPanics(r.body.Chain)
                /\ r.body.Length > maxLength /\ ValidChain(r.body.Chain)
             THEN ResolveLoopSkipsFailures(order, resp, i + 1, r.body.Length, r.body.Chain)
             ELSE ResolveLoopSkipsFailures(order, resp, i + 1, maxLength, newChain)

\* the loop returning an error for a status other than 200
RECURSIVE ResolveLoopStatusError(_, _, _, _, _)
ResolveLoopStatusError(order, resp, i, maxLength, newChain) ==
    IF i > Len(order)
    THEN [err |-> "none", newChain |-> newChain, contacted |-> Len(order)]
    ELSE LET r == resp[order[i]]
         IN  IF r.kind # "ok"
             THEN [err |-> "get", newChain |-> newChain, contacted |-> i]
             ELSE IF ValidChainPanics(r.body.Chain)
                  THEN [err |-> "panic", newChain |-> newChain, contacted |-> i]
                  ELSE IF r.body.Length > maxLength /\ ValidChain(r.body.Chain)
                       THEN ResolveLoopStatusError(order, resp, i + 1, r.body.Length,
                                                   r.body.Chain)
                       ELSE ResolveLoopStatusError(order, resp, i + 1, maxLength, newChain)

\* the loop over the neighbours, from the i-th of them on, in the order the map yields
RECURSIVE ResolveLoop(_, _, _, _, _)
ResolveLoop(order, resp, i, maxLength, newChain) ==
    IF i > Len(order)
    THEN [err |-> "none", newChain |-> newChain, contacted |-> Len(order)]
    ELSE LET r == resp[order[i]]
         IN  CASE r.kind = "unreachable" ->
                    [err |-> "get", newChain |-> newChain, contacted |-> i]
               [] r.kind = "non200" ->
                    ResolveLoop(order, resp, i + 1, maxLength, newChain)
               [] r.kind = "undecodable" ->
                    [err |-> "decode", newChain |-> newChain, contacted |-> i]
               [] OTHER ->
                    IF ValidChainPanics(r.body.Chain)
                    THEN [err |-> "panic", newChain |-> newChain, contacted |-> i]
                    ELSE IF r.body.Length > maxLength /\ ValidChain(r.body.Chain)
                         THEN ResolveLoop(order, resp, i + 1, r.body.Length, r.body.Chain)
                         ELSE ResolveLoop(order, resp, i + 1, maxLength, newChain)

\* ResolveConflicts installing newChain without asking whether a winner was found
ResolveConflictsNoNilCheck(b, order, resp) ==
    LET r == ResolveLoop(order, resp, 1, Len(b.Chain), <<>>)
    IN  IF r.err # "none"
        THEN [bc |-> b, replaced |-> FALSE, err |-> r.err, contacted |-> r.contacted]
        ELSE [bc |-> [b EXCEPT !.Chain = r.newChain], replaced |-> TRUE,
              err |-> "none", contacted |-> r.contacted]

\* the ledger after the round, what it returns, and how many peers it asked
ResolveConflicts(b, order, resp) ==
    LET r == ResolveLoop(order, resp, 1, Len(b.Chain), <<>>)
    IN  IF r.err # "none"
        THEN [bc |-> b, replaced |-> FALSE, err |-> r.err, contacted |-> r.contacted]
        ELSE IF r.newChain # <<>>
             THEN [bc |-> [b EXCEPT !.Chain = r.newChain], replaced |-> TRUE,
                   err |-> "none", contacted |-> r.contacted]
             ELSE [bc |-> b, replaced |-> FALSE, err |-> "none",
                   contacted |-> r.contacted]

\* the orders in which a Go map of these keys may be ranged over
Orders(S) ==
    {o \in [1..Cardinality(S) -> S] : \A i, j \in 1..Cardinality(S) : i # j => o[i] # o[j]}

-----------------------------------------------------------------------------
(* main.go and server.go: the requests *)

InvalidURL == "%zz"

\* net/http serves each request in a goroutine of its own
Goroutines == 1..MaxInflight
\* a goroutine that serves no request
Idle == [pc |-> "idle"]

Init ==
    /\ bc = [n \in NodeIds |-> Blockchain]
    /\ up = [n \in NodeIds |-> FALSE]
    /\ clock = 0
    /\ promised = [n \in NodeIds |-> <<>>]
    /\ submitted = 0
    /\ last = [op |-> "none"]
    /\ accepted = [n \in NodeIds |-> EmptyBag]
    /\ inflight = [r \in Goroutines |-> Idle]

\* run: InitBlockchain, then the server starts
Start(n, maxClock) ==
    /\ ~up[n]
    /\ clock < maxClock
    /\ bc' = [bc EXCEPT ![n] = InitBlockchain(Now(clock))]
    /\ up' = [up EXCEPT ![n] = TRUE]
    /\ clock' = clock + 1
    /\ last' = [op |-> "init", node |-> n]
    /\ UNCHANGED <<promised, submitted, accepted, inflight>>

\* the test of the decoded transaction, without the amount
MissingValuesNoAmount(sender, recipient, amount) == sender = "" \/ recipient = ""

\* the test of the decoded transaction that answers 400 "Missing values"
MissingValues(sender, recipient, amount) ==
    sender = "" \/ recipient = "" \/ amount = 0

HandleNewTransactions(n, maxSubmit) ==
    /\ up[n]
    /\ \E sender \in Senders, recipient \in Recipients, amount \in Amounts(submitted) :
          IF MissingValues(sender, recipient, amount)
          THEN /\ last' = [op |-> "submit", node |-> n, status |-> 400, pre |-> bc[n],
                           transaction |-> Transaction(sender, recipient, amount)]
               /\ UNCHANGED <<bc, promised, submitted, accepted>>
          ELSE LET r == NewTransaction(bc[n], sender, recipient, amount)
               IN  /\ submitted < maxSubmit
                   /\ submitted' = submitted + 1
                   /\ bc' = [bc EXCEPT ![n] = r.bc]
                   /\ promised' = [promised EXCEPT ![n] = Append(@, r.index)]
                   /\ accepted' = [accepted EXCEPT ![n] =
                                       @ (+) SetToBag({Transaction(sender, recipient, amount)})]
                   /\ last' = [op |-> "submit", node |-> n, status |-> 200,
                               pre |-> bc[n], index |-> r.index,
                               transaction |-> Transaction(sender, recipient, amount)]
    /\ UNCHANGED <<up, clock, inflight>>

HandleMine(n, maxClock) ==
    /\ up[n]
    /\ clock < maxClock
    /\ ProofOfWorkEnds(LastBlock(bc[n]).Proof)
    /\ LET lastBlock == LastBlock(bc[n])
           proof == ProofOfWork(lastBlock.Proof)
           rewarded == NewTransaction(bc[n], "0", n, 1).bc
           r == NewBlock(rewarded, proof, EmptyString, Now(clock))
       IN  /\ bc' = [bc EXCEPT ![n] = r.bc]
           /\ last' = [op |-> "mine", node |-> n, pre |-> bc[n],
                       pool |-> rewarded.CurrentTransactions, block |-> r.block,
                       promised |-> promised[n]]
    /\ clock' = clock + 1
    /\ promised' = [promised EXCEPT ![n] = <<>>]
    /\ accepted' = [accepted EXCEPT ![n] = @ (+) SetToBag({Transaction("0", n, 1)})]
    /\ UNCHANGED <<up, submitted, inflight>>

HandleFullChain(n) ==
    /\ up[n]
    /\ last' = [op |-> "chain", node |-> n, body |-> HandleFullChainBody(bc[n])]
    /\ UNCHANGED <<bc, up, clock, promised, submitted, accepted, inflight>>

\* lists: the lists of addresses a client may send
HandleRegisterNode(n, lists) ==
    /\ up[n]
    /\ \E nodes \in lists :
          IF InvalidURL \in nodes
          THEN /\ last' = [op |-> "register", node |-> n, status |-> 400]
               /\ UNCHANGED bc
          ELSE /\ bc' = [bc EXCEPT ![n].Nodes = @ \cup nodes]
               /\ last' = [op |-> "register", node |-> n, status |-> 200]
    /\ UNCHANGED <<up, clock, promised, submitted, accepted, inflight>>

HandleConsensus(n) ==
    /\ up[n]
    /\ \E order \in Orders(bc[n].Nodes), resp \in Gets(bc[n].Nodes) :
          /\ LET r == ResolveConflicts(bc[n], order, resp)
             IN  /\ bc' = [bc EXCEPT ![n] = r.bc]
                 /\ last' = [op |-> "resolve", node |-> n, pre |-> bc[n],
                             asked |-> SubSeq(order, 1, r.contacted),
                             fetched |-> [i \in 1..r.contacted |-> resp[order[i]]],
                             replaced |-> r.replaced, err |-> r.err]
    /\ UNCHANGED <<up, clock, promised, submitted, accepted, inflight>>

\* every peer is a node that runs this program
Next ==
    \E n \in NodeIds :
        \/ Start(n, MaxClock)
        \/ HandleNewTransactions(n, MaxSubmit)
        \/ HandleMine(n, MaxClock)
        \/ HandleFullChain(n)
        \/ HandleRegisterNode(n, SUBSET ((NodeIds \ {n}) \cup {InvalidURL}))
        \/ HandleConsensus(n)

Spec == Init /\ [][Next]_vars

\* a peer may be any address
NextOpen ==
    \E n \in NodeIds :
        \/ Start(n, MaxClockOpen)
        \/ HandleNewTransactions(n, MaxSubmitOpen)
        \/ HandleMine(n, MaxClockOpen)
        \/ HandleFullChain(n)
        \/ HandleRegisterNode(n, {(NodeIds \ {n}) \cup {Foreign}, {Foreign, InvalidURL}})
        \/ HandleConsensus(n)

SpecOpen == Init /\ [][NextOpen]_vars

-----------------------------------------------------------------------------
(* The handlers step by step: there is no lock in blockchain.go or server.go, *)
(* so the statements of requests served at the same time interleave          *)

\* the node that serves several requests at once
ConcNodes == {"A"}

\* the mine requests in flight that have not read the clock yet
SealsToCome == Cardinality({r \in Goroutines : inflight[r].pc \in {"reward", "build"}})

\* HandleMine: LastBlock and ProofOfWork
MineLastBlock(n, r) ==
    /\ up[n]
    /\ inflight[r] = Idle
    /\ clock + SealsToCome < MaxClockConc
    /\ ProofOfWorkEnds(LastBlock(bc[n]).Proof)
    /\ inflight' = [inflight EXCEPT ![r] =
                       [pc |-> "reward", node |-> n,
                        proof |-> ProofOfWork(LastBlock(bc[n]).Proof)]]
    /\ UNCHANGED <<bc, up, clock, promised, submitted, last, accepted>>

\* HandleMine: NewTransaction for the reward
MineReward(n, r) ==
    /\ inflight[r].pc = "reward"
    /\ inflight[r].node = n
    /\ bc' = [bc EXCEPT ![n] = NewTransaction(bc[n], "0", n, 1).bc]
    /\ accepted' = [accepted EXCEPT ![n] = @ (+) SetToBag({Transaction("0", n, 1)})]
    /\ inflight' = [inflight EXCEPT ![r].pc = "build"]
    /\ UNCHANGED <<up, clock, promised, submitted, last>>

\* NewBlock: the hash of the last block and the block literal, which reads the
\* length of the chain, the clock and the pool
NewBlockBuild(n, r) ==
    /\ inflight[r].pc = "build"
    /\ inflight[r].node = n
    /\ inflight' = [inflight EXCEPT ![r] =
                       [pc |-> "reset", node |-> n,
                        block |-> NewBlock(bc[n], inflight[r].proof, EmptyString,
                                           Now(clock)).block]]
    /\ clock' = clock + 1
    /\ UNCHANGED <<bc, up, promised, submitted, last, accepted>>

\* NewBlock: the pool is reset
NewBlockReset(n, r) ==
    /\ inflight[r].pc = "reset"
    /\ inflight[r].node = n
    /\ bc' = [bc EXCEPT ![n].CurrentTransactions = <<>>]
    /\ promised' = [promised EXCEPT ![n] = <<>>]
    /\ inflight' = [inflight EXCEPT ![r].pc = "append"]
    /\ UNCHANGED <<up, clock, submitted, last, accepted>>

\* NewBlock: the block is appended to the chain; HandleMine answers
NewBlockAppend(n, r) ==
    /\ inflight[r].pc = "append"
    /\ inflight[r].node = n
    /\ bc' = [bc EXCEPT ![n].Chain = Append(@, inflight[r].block)]
    /\ last' = [op |-> "mine", node |-> n, pre |-> bc[n],
                pool |-> inflight[r].block.Transactions,
                block |-> inflight[r].block, promised |-> promised[n]]
    /\ inflight' = [inflight EXCEPT ![r] = Idle]
    /\ UNCHANGED <<up, clock, promised, submitted, accepted>>

\* HandleFullChain: the field Chain of the response is read
FullChainChain(n, r) ==
    /\ up[n]
    /\ inflight[r] = Idle
    /\ inflight' = [inflight EXCEPT ![r] =
                       [pc |-> "length", node |-> n, chain |-> bc[n].Chain]]
    /\ UNCHANGED <<bc, up, clock, promised, submitted, last, accepted>>

\* HandleFullChain: the field Length is read, and the response is written
FullChainLength(n, r) ==
    /\ inflight[r].pc = "length"
    /\ inflight[r].node = n
    /\ last' = [op |-> "chain", node |-> n,
                body |-> FullChainResponse(inflight[r].chain, Len(bc[n].Chain))]
    /\ inflight' = [inflight EXCEPT ![r] = Idle]
    /\ UNCHANGED <<bc, up, clock, promised, submitted, accepted>>

\* one node serving submit, mine and chain requests at the same time
NextConc ==
    \E n \in ConcNodes :
        \/ Start(n, MaxClockConc)
        \/ HandleNewTransactions(n, MaxSubmitConc)
        \/ \E r \in Goroutines :
              \/ MineLastBlock(n, r)
              \/ MineReward(n, r)
              \/ NewBlockBuild(n, r)
              \/ NewBlockReset(n, r)
              \/ NewBlockAppend(n, r)
              \/ FullChainChain(n, r)
              \/ FullChainLength(n, r)

SpecConc == Init /\ [][NextConc]_vars

-----------------------------------------------------------------------------
(* Properties *)

\* every adjacent pair of the chain is linked by hash and by proof
Linked(chain) ==
    \A i \in 2..Len(chain) :
        /\ chain[i].PreviousHash = Hash(chain[i - 1])
        /\ ValidProof(chain[i - 1].Proof, chain[i].Proof)

Resolved == last.op = "resolve"
Mined == last.op = "mine"

\* the chains fetched in the round handled last
Fetched == {last.fetched[i].body.Chain : i \in DOMAIN last.fetched}
FetchedValid == {c \in Fetched : Len(c) > 0 /\ Linked(c)}
AllFetchesSucceed ==
    /\ last.err = "none"
    /\ Len(last.fetched) = Cardinality(last.pre.Nodes)
    /\ \A i \in DOMAIN last.fetched : last.fetched[i].kind = "ok"

\* C1: a round in which every fetch succeeds reports replaced = true exactly when a
\* fetched chain is valid and has more blocks than the local chain; the chain is then
\* a fetched valid chain with the most blocks of all; otherwise the chain is unchanged.
C1_LongestValidChainWins ==
    (Resolved /\ AllFetchesSucceed) =>
        /\ last.replaced <=> \E c \in FetchedValid : Len(c) > Len(last.pre.Chain)
        /\ last.replaced =>
              /\ bc[last.node].Chain \in FetchedValid
              /\ \A c \in FetchedValid : Len(c) <= Len(bc[last.node].Chain)
        /\ ~last.replaced => bc[last.node].Chain = last.pre.Chain

\* C2: with peers that run this program, every adjacent pair (prev, curr) of every
\* node's chain has curr.previous_hash = hash(prev) and valid_proof(prev.proof,
\* curr.proof).
C2_ChainsLinked == \A n \in NodeIds : Linked(bc[n].Chain)

\* a node took over a chain of three blocks from its peer
C2_Witness ==
    /\ Resolved /\ last.replaced
    /\ Len(bc[last.node].Chain) >= 3
    /\ Len(last.pre.Chain) < 3

\* C3: a round never installs a chain that fails the hash link or valid_proof on an
\* adjacent pair, however long it is, and such a candidate does not end the round
\* with an error: the next peer is asked, or the round ends with its result.
C3_InvalidNeverInstalled ==
    /\ \A n \in NodeIds : Linked(bc[n].Chain)
    /\ Resolved =>
          \A i \in DOMAIN last.fetched :
              LET c == last.fetched[i].body.Chain
              IN  (last.fetched[i].kind = "ok" /\ Len(c) > 0 /\ ~Linked(c)) =>
                      /\ bc[last.node].Chain # c
                      /\ i = Len(last.fetched) =>
                            /\ last.err = "none"
                            /\ i = Cardinality(last.pre.Nodes)

\* a candidate with the right hash and a wrong proof, longer than the local chain and
\* than the other candidate, was fetched first, and the round went on to the next peer
C3_Witness ==
    /\ Resolved /\ last.err = "none" /\ Len(last.fetched) = 2
    /\ last.fetched[1].kind = "ok" /\ last.fetched[2].kind = "ok"
    /\ LET c == last.fetched[1].body.Chain
       IN  /\ Len(c) > Len(last.pre.Chain)
           /\ Len(c) > Len(last.fetched[2].body.Chain)
           /\ last.fetched[1].body.Length = Len(c)
           /\ c[Len(c)].PreviousHash = Hash(c[Len(c) - 1])
           /\ ~ValidProof(c[Len(c) - 1].Proof, c[Len(c)].Proof)
           /\ bc[last.node].Chain # c

\* C4: the block new_block returns holds the pending pool as it was, in order, it is
\* the last block of the chain, and the pool is empty after the call.
C4_NewBlockSealsPool ==
    /\ Mined =>
          /\ last.block.Transactions = last.pool
          /\ last.block = LastBlock(bc[last.node])
          /\ bc[last.node].CurrentTransactions = <<>>
    /\ last.op = "init" =>
          /\ LastBlock(bc[last.node]).Transactions = <<>>
          /\ Len(bc[last.node].Chain) = 1
          /\ bc[last.node].CurrentTransactions = <<>>

\* new_block sealed a pool of two client transactions and the reward
C4_Witness == Mined /\ Len(last.pool) = 3 /\ last.pool[1] # last.pool[2]

\* C5: a block sealed by a mine request holds the transactions pending when the
\* request started, in order, then one reward {"0", node identifier, 1}, and its proof
\* is valid against the proof of the block that was last.
C5_MinedBlock ==
    Mined =>
        /\ last.block.Transactions =
              last.pre.CurrentTransactions \o <<Transaction("0", last.node, 1)>>
        /\ ValidProof(LastBlock(last.pre).Proof, last.block.Proof)

\* a mine request found two different client transactions pending
C5_Witness ==
    /\ Mined /\ Len(last.pre.CurrentTransactions) = 2
    /\ last.pre.CurrentTransactions[1] # last.pre.CurrentTransactions[2]
    /\ Len(last.pre.Chain) >= 2

\* C6: the transaction for which new_transaction returned index k is sealed into the
\* block of index k.
C6_SealedAtPromisedIndex ==
    Mined => \A i \in DOMAIN last.promised : last.promised[i] = last.block.Index

\* C7: with peers that run this program, the block at position i of a chain has
\* index i, and a block made by new_block has index (blocks before the call) + 1.
C7_IndexIsPosition ==
    /\ \A n \in NodeIds : \A i \in 1..Len(bc[n].Chain) : bc[n].Chain[i].Index = i
    /\ Mined => last.block.Index = Len(last.pre.Chain) + 1

\* a node mined on top of a chain it took over from its peer
C7_Witness ==
    /\ Mined /\ Len(bc[last.node].Chain) >= 3
    /\ bc[last.node].Chain[1].Timestamp.mono = FALSE

\* a fetch that failed: http.Get or the decoding of the body returned an error
FetchFailed(r) == r.kind \in {"unreachable", "undecodable"}

\* C8: when a fetch fails the round fails at once: the failing peer is the last one
\* asked, no chain is installed and the ledger is as before, also when a peer asked
\* before had a longer valid chain.
C8_FetchFailureAborts ==
    Resolved =>
        \A i \in DOMAIN last.fetched :
            FetchFailed(last.fetched[i]) =>
                /\ i = Len(last.fetched)
                /\ last.err \in {"get", "decode"}
                /\ ~last.replaced
                /\ bc[last.node] = last.pre

\* the first peer had a longer valid chain and the fetch from the second failed
C8_Witness ==
    /\ Resolved /\ Len(last.fetched) = 2
    /\ last.fetched[1].kind = "ok"
    /\ Linked(last.fetched[1].body.Chain)
    /\ Len(last.fetched[1].body.Chain) > Len(last.pre.Chain)
    /\ last.fetched[1].body.Length = Len(last.fetched[1].body.Chain)
    /\ FetchFailed(last.fetched[2])
    /\ bc[last.node].Chain = last.pre.Chain

\* C9 as stated: a status other than 200 aborts the round with a failure, and no
\* later peer is asked.
C9_Non200Aborts ==
    Resolved =>
        \A i \in DOMAIN last.fetched :
            last.fetched[i].kind = "non200" =>
                /\ i = Len(last.fetched)
                /\ last.err # "none"

\* the round with the peers that answered a status other than 200 left out
RECURSIVE Without200(_, _)
Without200(asked, fetched) ==
    IF asked = <<>>
    THEN <<>>
    ELSE IF Head(fetched).kind = "non200"
         THEN Without200(Tail(asked), Tail(fetched))
         ELSE <<Head(asked)>> \o Without200(Tail(asked), Tail(fetched))
RoundWithout200 ==
    ResolveConflicts(last.pre, Without200(last.asked, last.fetched),
                     [p \in {last.asked[i] : i \in DOMAIN last.asked} |->
                         last.fetched[CHOOSE i \in DOMAIN last.asked : last.asked[i] = p]])

\* C9 as amended: a peer that answers a status other than 200 is passed over. It is no
\* failure and does not end the round: the next peer is asked, and the round ends as
\* it would have without that peer, with the same error or result and the same chain.
C9_Non200PassedOver ==
    Resolved =>
        \A i \in DOMAIN last.fetched :
            last.fetched[i].kind = "non200" =>
                /\ i < Cardinality(last.pre.Nodes) => i < Len(last.fetched)
                /\ i = Len(last.fetched) => last.err = "none"
                /\ last.err = RoundWithout200.err
                /\ last.replaced = RoundWithout200.replaced
                /\ bc[last.node] = RoundWithout200.bc

\* a peer answered 404, the next one a longer valid chain, and the chain was replaced
C9_Witness ==
    /\ Resolved /\ Len(last.fetched) = 2
    /\ last.fetched[1].kind = "non200"
    /\ last.fetched[2].kind = "ok"
    /\ last.replaced /\ last.err = "none"
    /\ bc[last.node].Chain = last.fetched[2].body.Chain

\* the chains valid_chain is tried on: the chains of the nodes and their prefixes
Candidates ==
    UNION {{SubSeq(bc[n].Chain, 1, k) : k \in 1..Len(bc[n].Chain)} : n \in NodeIds}
\* the values a previous_hash is changed to
OtherHashes(chain) ==
    {<<"1">>, <<"bad">>} \cup {Hash(chain[i]) : i \in 1..Len(chain)}
Corrupt(chain, j, h) == [chain EXCEPT ![j].PreviousHash = h]

\* C10 as stated: valid_chain is true of every chain whose adjacent pairs are linked,
\* and false once the previous_hash of any one block, the genesis block and chains of
\* one block included, is changed.
C10_AnyCorruptionDetected ==
    \A c \in Candidates :
        Linked(c) =>
            /\ ValidChain(c)
            /\ \A j \in 1..Len(c) : \A h \in OtherHashes(c) \ {c[j].PreviousHash} :
                  ~ValidChain(Corrupt(c, j, h))

\* C10 as amended: valid_chain is true of every chain whose adjacent pairs are linked;
\* it is false once the previous_hash of any one block of a chain of two blocks or
\* more is changed, the genesis block included; a chain of one block passes whatever
\* its previous_hash.
C10_CorruptionDetectedFromTwoBlocks ==
    \A c \in Candidates :
        Linked(c) =>
            /\ ValidChain(c)
            /\ \A j \in 1..Len(c) : \A h \in OtherHashes(c) \ {c[j].PreviousHash} :
                  ValidChain(Corrupt(c, j, h)) <=> Len(c) = 1

\* a chain of three blocks fails with the previous_hash of its genesis block changed
C10_Witness ==
    \E n \in NodeIds :
        /\ Len(bc[n].Chain) = 3
        /\ ~ValidChain(Corrupt(bc[n].Chain, 1, <<"bad">>))
        /\ ~ValidChain(Corrupt(bc[n].Chain, 2, <<"bad">>))
        /\ ValidChain(Corrupt(SubSeq(bc[n].Chain, 1, 1), 1, <<"bad">>))

\* last_proof values ProofOfWork is applied to besides those of the chains
LastProofs == (0 - 3)..12

\* proof is the smallest non-negative integer that is valid after lastProof
SmallestValid(lastProof, proof) ==
    /\ proof >= 0
    /\ ValidProof(lastProof, proof)
    /\ \A q \in 0..(proof - 1) : ~ValidProof(lastProof, q)

\* C11: proof_of_work(last_proof) returns the smallest non-negative integer
\* that satisfies valid_proof after last_proof, for the last_proof values of
\* LastProofs and for the proof of every block a mine request seals
C11_ProofOfWorkSmallest ==
    /\ \A lp \in LastProofs :
          ProofOfWorkEnds(lp) => SmallestValid(lp, ProofOfWork(lp))
    /\ Mined => SmallestValid(LastBlock(last.pre).Proof, last.block.Proof)

\* a block mined on a chain of two blocks, its proof found after failed tries,
\* and a negative last_proof whose search ends at once
C11_Witness ==
    /\ Mined
    /\ Len(last.pre.Chain) = 2
    /\ last.block.Proof > 1
    /\ ~ValidProof(LastBlock(last.pre).Proof, 0)
    /\ \E lp \in LastProofs : lp < 0 /\ ProofOfWork(lp) = 0

\* C12: right after init the chain is the genesis block alone (index 1,
\* proof 100, previous_hash "1", no transaction), the pool is empty and the
\* peer set is empty
C12_AfterInit ==
    last.op = "init" =>
        LET b == bc[last.node]
        IN  /\ Len(b.Chain) = 1
            /\ b.Chain[1].Index = 1
            /\ b.Chain[1].Proof = 100
            /\ b.Chain[1].PreviousHash = <<"1">>
            /\ b.Chain[1].Transactions = <<>>
            /\ b.CurrentTransactions = <<>>
            /\ b.Nodes = {}

\* the second node has just been initialised while the first already mined
C12_Witness ==
    /\ last.op = "init"
    /\ up[last.node]
    /\ \E n \in NodeIds \ {last.node} : Len(bc[n].Chain) > 1

\* C13: the chain of every started node has at least one block, so LastBlock is
\* defined, whatever submit, mine and resolve requests were served, a resolve
\* that adopted a fetched chain included
C13_ChainNeverEmpty ==
    \A n \in NodeIds :
        up[n] => /\ Len(bc[n].Chain) >= 1
                 /\ LastBlock(bc[n]) = bc[n].Chain[Len(bc[n].Chain)]

\* a resolve has just adopted a chain that the foreign peer sent
C13_Witness ==
    /\ Resolved
    /\ last.replaced
    /\ last.asked[Len(last.asked)] = Foreign
    /\ bc[last.node].Chain # last.pre.Chain
    /\ Len(bc[last.node].Chain) >= 1

\* C16: the chain of a node never gets shorter: after a resolve it has at least
\* as many blocks as before, and no other request changes this either
C16_ChainNeverShorter ==
    /\ Resolved => Len(bc[last.node].Chain) >= Len(last.pre.Chain)
    /\ Mined => Len(bc[last.node].Chain) >= Len(last.pre.Chain)
    /\ last.op = "submit" => Len(bc[last.node].Chain) >= Len(last.pre.Chain)

\* C19: a resolve round never faults on a decoded answer: an answer whose chain
\* has no block does not make ValidChain panic, and is no winner
C19_EmptyCandidateNoFault ==
    Resolved =>
        \A i \in DOMAIN last.fetched :
            (last.fetched[i].kind = "ok" /\ Len(last.fetched[i].body.Chain) = 0)
                => last.err # "panic"

\* C15: a submit whose sender is empty, whose recipient is empty or whose amount
\* is zero is answered 400, and the ledger of the node (pool and chain) is what
\* it was before: NewTransaction was not called
C15_BadSubmitRejected ==
    (/\ last.op = "submit"
     /\ \/ last.transaction.Sender = ""
        \/ last.transaction.Recipient = ""
        \/ last.transaction.Amount = 0)
    => /\ last.status = 400
       /\ bc[last.node] = last.pre

\* a submit with sender and recipient given and amount zero was rejected by a node
\* whose pool already held a transaction
C15_Witness ==
    /\ last.op = "submit"
    /\ last.transaction.Sender # ""
    /\ last.transaction.Recipient # ""
    /\ last.transaction.Amount = 0
    /\ last.status = 400
    /\ Len(bc[last.node].CurrentTransactions) > 0

\* s is t without its last entries, at least one
StrictPrefix(s, t) == Len(s) < Len(t) /\ SubSeq(t, 1, Len(s)) = s

\* C20: NewTransaction leaves the chain alone and puts exactly one entry at the
\* end of the pool, the entries before it kept in their order (for a submitted
\* transaction and for the reward of a mine); NewBlock leaves the blocks of the
\* chain alone and puts exactly one block after them
C20_Frames ==
    /\ (last.op = "submit" /\ last.status = 200) =>
          /\ bc[last.node].Chain = last.pre.Chain
          /\ bc[last.node].CurrentTransactions =
                 Append(last.pre.CurrentTransactions, last.transaction)
    /\ Mined =>
          /\ last.pool = Append(last.pre.CurrentTransactions,
                                Transaction("0", last.node, 1))
          /\ StrictPrefix(last.pre.Chain, bc[last.node].Chain)
          /\ Len(bc[last.node].Chain) = Len(last.pre.Chain) + 1
    /\ last.op = "init" => Len(bc[last.node].Chain) = 1

\* a mine has sealed a third block on a pool that held a submitted transaction
C20_Witness ==
    /\ Mined
    /\ Len(last.pre.Chain) = 2
    /\ Len(last.pre.CurrentTransactions) = 1
    /\ Len(bc[last.node].Chain) = 3
    /\ bc[last.node].Chain[3] = last.block

\* C14: the length a chain response reports is the number of blocks of the
\* chain it carries, also when a mine is served at the same time
C14_ConsistentSnapshot ==
    last.op = "chain" => last.body.Length = Len(last.body.Chain)

\* the reward transactions of a block
Rewards(block) ==
    {i \in 1..Len(block.Transactions) : block.Transactions[i].Sender = "0"}

\* C17: with mine requests interleaved on a node, every adjacent pair of its
\* chain is still linked by hash and by proof, and every sealed block holds
\* exactly one reward transaction
C17_InterleavedMinesLinked ==
    \A n \in ConcNodes :
        /\ Linked(bc[n].Chain)
        /\ \A i \in 2..Len(bc[n].Chain) : Cardinality(Rewards(bc[n].Chain[i])) = 1

RECURSIVE SeqToBag(_)
SeqToBag(s) == IF s = <<>> THEN EmptyBag ELSE SetToBag({Head(s)}) (+) SeqToBag(Tail(s))

\* the transactions of all blocks of the chain
RECURSIVE ChainTransactions(_)
ChainTransactions(chain) ==
    IF chain = <<>>
    THEN <<>>
    ELSE Head(chain).Transactions \o ChainTransactions(Tail(chain))

\* no request is being served
Quiet == \A r \in Goroutines : inflight[r] = Idle

\* C18: on a node whose chain is never replaced, once the requests in flight
\* are answered, the transactions NewTransaction accepted are, each as often as
\* it was accepted, those of the pool and of the blocks of the chain
C18_NoTransactionLostOrDuplicated ==
    Quiet =>
        \A n \in ConcNodes :
            accepted[n] = SeqToBag(bc[n].CurrentTransactions
                                   \o ChainTransactions(bc[n].Chain))

=============================================================================
